---- MODULE Spec2Model ----
(***************************************************************************)
(* apexer: the APEX packaging pipeline of src/apexer/apexer.py.            *)
(*                                                                         *)
(* One build is one run of main(): the work directory is created, the      *)
(* arguments and the manifest are validated, the input tree is staged, the *)
(* payload is built by a chain of external tools, optionally signed, and   *)
(* the container is assembled at the output path.  Every external tool     *)
(* invocation is one step; the outcome of a tool (found or not, its exit   *)
(* code) and the content of the files the build reads are drawn when they  *)
(* are read.                                                               *)
(***************************************************************************)
EXTENDS Integers, Sequences, FiniteSets, TLC

VARIABLES
  pc,                \* position of the build in main / CreateApex
  args,              \* the argparse namespace (mutated by ValidateArgs)
  output,            \* what is at args.output
  output0,           \* what was at args.output when the build started
  outPayload,        \* the payload bytes that were written to args.output
  workDirExists,     \* the directory made by TempDirectory.__enter__
  workDir,           \* names directly under the work directory
  tempFiles,         \* NamedTemporaryFile(delete=False) files outside workDir
  inputDir,          \* top-level regular files of args.input_dir
  stagingDir,        \* entries of work_dir/input
  manifestsDir,      \* entries of work_dir/manifests
  contentDir,        \* entries of work_dir/content
  tmp_input_dir,     \* entries of work_dir/tmp_input_dir (erofs)
  img,               \* the payload file: the operations applied to it
  imgEntries,        \* the directory entries handed to the image backend
  apex_version_code, \* str(manifest_apex.version)
  canned_fs_config,  \* the local canned_fs_config of CreateApex
  tools,             \* the processes spawned by RunCommand, in order
  lastReturn,        \* the call site and return code of the last process
  stages,            \* the pipeline stages entered, in order
  apex_zip,          \* the payload bytes stored in work_dir/apex.zip
  payloadReadBy,     \* the assembly steps that have read the payload
  failure,           \* why the build failed
  exitStatus,        \* the process exit status once main has ended
  descriptor_package,\* the package attribute ValidateAndroidManifest parsed
  fnPc,              \* the function under study, when one is studied alone
  fnIn,              \* its arguments
  fnOut              \* its result

vars == <<pc, args, output, output0, outPayload, workDirExists, workDir, tempFiles,
          inputDir, stagingDir, manifestsDir, contentDir, tmp_input_dir, img,
          imgEntries, apex_version_code, canned_fs_config, tools, lastReturn,
          stages, apex_zip, payloadReadBy, failure, exitStatus,
          descriptor_package, fnPc, fnIn, fnOut>>

\* The variables of a function studied alone.
fnVars == <<fnPc, fnIn, fnOut>>

\* The variables of a build.
buildVars == <<pc, args, output, output0, outPayload, workDirExists, workDir,
               tempFiles, inputDir, stagingDir, manifestsDir, contentDir,
               tmp_input_dir, img, imgEntries, apex_version_code,
               canned_fs_config, tools, lastReturn, stages, apex_zip,
               payloadReadBy, failure, exitStatus, descriptor_package>>

fsVars == <<workDirExists, workDir, inputDir, stagingDir, manifestsDir,
            contentDir, tmp_input_dir>>

----------------------------------------------------------------------------
(* Bounds and constants *)

MaxReturnCode == 2

BLOCK_SIZE == 4096

NONE == "None"

ReturnCodes == 0..MaxReturnCode

\* File names are sequences of characters.
apex_manifest_pb ==
  <<"a","p","e","x","_","m","a","n","i","f","e","s","t",".","p","b">>

InputNames == { <<"f">>, <<".","h">> }

\* Version strings a manifest may carry once converted by str().
Versions == { <<"1">>, <<"1","/">> }

\* The sizes `ls -lgG` may report for the erofs image.
ImageSizes == {4096, 8192}

Last(s) == s[Len(s)]

----------------------------------------------------------------------------
(* main: ParseArgs and TempDirectory *)

\* The namespaces ParseArgs can return (the options the pipeline branches on).
\* payload_fs_type is read only for image payloads.
ParseArgs ==
  { a \in [force : BOOLEAN,
           payload_type : {"image", "zip"},
           payload_fs_type : {"ext4", "f2fs", "erofs"},
           key : {NONE, "given"},
           file_contexts : {NONE, "given"},
           canned_fs_config : {NONE, "given"},
           android_manifest : {NONE, "given"},
           build_info : {NONE, "given"},
           unsigned_payload : BOOLEAN,
           unsigned_payload_only : BOOLEAN,
           payload_only : BOOLEAN,
           include_build_info : BOOLEAN] :
      a.payload_type = "zip" => a.payload_fs_type = "ext4" }

Init ==
  /\ pc = "main"
  /\ args \in ParseArgs
  /\ output \in {"absent", "preexisting"}
  /\ output0 = output
  /\ outPayload = <<>>
  /\ workDirExists = FALSE
  /\ workDir = {}
  /\ tempFiles = {}
  /\ inputDir \in SUBSET InputNames
  /\ stagingDir = {}
  /\ manifestsDir = {}
  /\ contentDir = {}
  /\ tmp_input_dir = {}
  /\ img = <<>>
  /\ imgEntries = {}
  /\ apex_version_code = <<>>
  /\ canned_fs_config = NONE
  /\ tools = <<>>
  /\ lastReturn = [step |-> NONE, returncode |-> 0]
  /\ stages = <<>>
  /\ apex_zip = <<>>
  /\ payloadReadBy = {}
  /\ failure = NONE
  /\ exitStatus = -1
  /\ descriptor_package = NONE
  /\ fnPc = NONE
  /\ fnIn = NONE
  /\ fnOut = NONE

\* The stage s is entered (or continued).
Enter(s) == IF stages # <<>> /\ Last(stages) = s THEN stages ELSE Append(stages, s)

\* An exception leaves CreateApex while the build is in stage s.
Raise(kind, s) ==
  /\ pc' = "raised"
  /\ failure' = kind
  /\ stages' = Append(Enter(s), "Failed")

\* CreateApex returns False while the build is in stage s.
ReturnFalse(kind, s) ==
  /\ pc' = "returned"
  /\ failure' = kind
  /\ stages' = Append(Enter(s), "Failed")

\* CreateApex returns True.
ReturnTrue(s) ==
  /\ pc' = "returned"
  /\ failure' = NONE
  /\ stages' = Append(Enter(s), "Done")

\* main: `with TempDirectory() as work_dir` is entered.
TempDirectory__enter__ ==
  /\ pc = "main"
  /\ pc' = "ValidateArgs"
  /\ workDirExists' = TRUE
  /\ workDir' = {}
  /\ UNCHANGED <<fnVars, descriptor_package, output0, args, output, outPayload, tempFiles, inputDir, stagingDir,
                 manifestsDir, contentDir, tmp_input_dir, img, imgEntries,
                 apex_version_code, canned_fs_config, tools, lastReturn, stages,
                 apex_zip, payloadReadBy, failure, exitStatus>>

\* Variant: the work directory is removed only after a return of CreateApex
\* (cleanup written after the call instead of in __exit__).
WithExitRuns_OnReturnOnly(how) == how = "returned"

\* `with TempDirectory() as work_dir`: __exit__ runs however the block is
\* left, by a return of CreateApex ("returned") or by an exception ("raised").
WithExitRuns(how) == how \in {"returned", "raised"}

\* Variant: the value CreateApex returned is not looked at.
ExitStatus_ZeroOnReturn(how, success) == IF how = "returned" THEN 0 ELSE 1

\* main: `if not success: sys.exit(1)`; falling off the end of the script
\* is status 0 and an uncaught exception is status 1.
ExitStatus(how, success) == IF how = "returned" /\ success THEN 0 ELSE 1

\* main: the with statement is left and __exit__ removes the work directory
\* with shutil.rmtree; then sys.exit(1) unless CreateApex returned True.  An uncaught
\* exception ends the interpreter with status 1.
TempDirectory__exit__ ==
  /\ pc \in {"returned", "raised"}
  /\ pc' = "exited"
  /\ workDirExists' = IF WithExitRuns(pc) THEN FALSE ELSE workDirExists
  /\ workDir' = IF workDirExists' THEN workDir ELSE {}
  /\ stagingDir' = IF workDirExists' THEN stagingDir ELSE {}
  /\ manifestsDir' = IF workDirExists' THEN manifestsDir ELSE {}
  /\ contentDir' = IF workDirExists' THEN contentDir ELSE {}
  /\ tmp_input_dir' = IF workDirExists' THEN tmp_input_dir ELSE {}
  /\ exitStatus' = ExitStatus(pc, failure = NONE)
  /\ UNCHANGED <<fnVars, descriptor_package, output0, args, output, outPayload, tempFiles, inputDir, img,
                 imgEntries, apex_version_code, canned_fs_config, tools, lastReturn,
                 stages, apex_zip, payloadReadBy, failure>>

----------------------------------------------------------------------------
(* The order of the statements of CreateApex and of the functions it calls *)

\* Variant: CreateApexPayload calls SignImage before CreateImage.
CreateApexPayloadEntry_SignFirst(a) ==
  IF a.payload_type = "image" THEN "add_hashtree_footer" ELSE "soong_zip"

\* The first external tool of CreateApexPayload.
CreateApexPayloadEntry(a) ==
  IF a.payload_type = "image"
  THEN CASE a.payload_fs_type = "ext4" -> "mke2fs"
         [] a.payload_fs_type = "f2fs" -> "fallocate"
         [] a.payload_fs_type = "erofs" -> "cp"
  ELSE "soong_zip"

\* Variant: CreateApexPayload never calls SignImage.
AfterCreateImage_NeverSign(a) == "payload_done"

\* CreateApexPayload: `if not args.unsigned_payload: SignImage(...)`
AfterCreateImage(a) ==
  IF ~a.unsigned_payload THEN "add_hashtree_footer" ELSE "payload_done"

\* Variant: CreateAndroidManifestXml, which validates the descriptor, is
\* called after CreateApexPayload, just before the descriptor is linked.
NextStep_LateDescriptor(step, a, image_size) ==
  LET afterImage == IF ~a.unsigned_payload THEN "add_hashtree_footer"
                    ELSE "CreateAndroidManifestXml"
  IN
  CASE step = "ValidateArgs" -> "ValidateApexManifest"
    [] step = "ValidateApexManifest" -> "WriteManifests"
    [] step = "WriteManifests" -> "ReplaceApexVersionPlaceholder"
    [] step = "ReplaceApexVersionPlaceholder" -> CreateApexPayloadEntry(a)
    [] step = "mke2fs" -> "sefcontext_compile"
    [] step = "sefcontext_compile" -> "e2fsdroid_staging"
    [] step = "e2fsdroid_staging" -> "e2fsdroid_manifests"
    [] step = "e2fsdroid_manifests" -> "resize2fs"
    [] step = "resize2fs" -> afterImage
    [] step = "fallocate" -> "make_f2fs"
    [] step = "make_f2fs" -> "sload_manifests"
    [] step = "sload_manifests" -> "sload_staging"
    [] step = "sload_staging" -> afterImage
    [] step = "cp" -> "make_erofs"
    [] step = "make_erofs" -> "ls"
    [] step = "ls" -> IF image_size = 4096 THEN "fallocate_8k" ELSE afterImage
    [] step = "fallocate_8k" -> afterImage
    [] step = "soong_zip" -> "CreateAndroidManifestXml"
    [] step = "add_hashtree_footer" -> "info_image"
    [] step = "info_image" -> "resize_image"
    [] step = "resize_image" -> "CreateAndroidManifestXml"
    [] step = "CreateAndroidManifestXml" -> "payload_done"
    [] step = "payload_done" -> "aapt2"
    [] step = "aapt2" -> "CreateZip"
    [] step = "CreateZip" -> "MergeZips"

\* The statement of CreateApex (or of the function it is in) that runs after
\* a step has succeeded; image_size is what CreateImageErofs parses from
\* the output of ls.
NextStep(step, a, image_size) ==
  CASE step = "ValidateArgs" -> "ValidateApexManifest"
    [] step = "ValidateApexManifest" -> "CreateAndroidManifestXml"
    [] step = "CreateAndroidManifestXml" -> "WriteManifests"
    [] step = "WriteManifests" -> "ReplaceApexVersionPlaceholder"
    [] step = "ReplaceApexVersionPlaceholder" -> CreateApexPayloadEntry(a)
    [] step = "mke2fs" -> "sefcontext_compile"
    [] step = "sefcontext_compile" -> "e2fsdroid_staging"
    [] step = "e2fsdroid_staging" -> "e2fsdroid_manifests"
    [] step = "e2fsdroid_manifests" -> "resize2fs"
    [] step = "resize2fs" -> AfterCreateImage(a)
    [] step = "fallocate" -> "make_f2fs"
    [] step = "make_f2fs" -> "sload_manifests"
    [] step = "sload_manifests" -> "sload_staging"
    [] step = "sload_staging" -> AfterCreateImage(a)
    [] step = "cp" -> "make_erofs"
    [] step = "make_erofs" -> "ls"
    [] step = "ls" -> IF image_size = 4096 THEN "fallocate_8k" ELSE AfterCreateImage(a)
    [] step = "fallocate_8k" -> AfterCreateImage(a)
    [] step = "soong_zip" -> "payload_done"
    [] step = "add_hashtree_footer" -> "info_image"
    [] step = "info_image" -> "resize_image"
    [] step = "resize_image" -> "payload_done"
    [] step = "payload_done" -> "aapt2"
    [] step = "aapt2" -> "CreateZip"
    [] step = "CreateZip" -> "MergeZips"

----------------------------------------------------------------------------
(* ValidateArgs *)

\* What ValidateArgs finds on disk.
ValidateArgsEnv ==
  [build_info_exists : BOOLEAN, manifest_isfile : BOOLEAN,
   android_manifest_isfile : BOOLEAN, input_dir_isdir : BOOLEAN]

\* Variant: the existence of the output is not checked.
OutputAlreadyExists_Unchecked(a, out) == FALSE

\* `if not args.force and os.path.exists(args.output)`
OutputAlreadyExists(a, out) == ~a.force /\ out # "absent"

\* Variant: unsigned_payload_only sets payload_only but not unsigned_payload.
ImplyUnsigned_PayloadOnlyOnly(a) ==
  IF a.unsigned_payload_only THEN [a EXCEPT !.payload_only = TRUE] ELSE a

\* `if args.unsigned_payload_only:` payload_only and unsigned_payload are set.
ImplyUnsigned(a) ==
  IF a.unsigned_payload_only
  THEN [a EXCEPT !.payload_only = TRUE, !.unsigned_payload = TRUE]
  ELSE a

\* ValidateArgs(args): the value returned (ok), the failure printed, and args
\* as the function leaves it.  A field is "temp" when it was materialised from
\* the build-info record with NamedTemporaryFile(delete=False).
ValidateArgsOutcome(a, env, out) ==
  LET build_info == a.build_info # NONE
      a1 == IF a.android_manifest = NONE /\ build_info
            THEN [a EXCEPT !.android_manifest = "temp"] ELSE a
      a2 == ImplyUnsigned(a1)
      a3 == IF a2.payload_type = "image" /\ a2.file_contexts = NONE
            THEN [a2 EXCEPT !.file_contexts = "temp"] ELSE a2
      a4 == IF a3.payload_type = "image" /\ a3.canned_fs_config = NONE
            THEN [a3 EXCEPT !.canned_fs_config = "temp"] ELSE a3
      Ret(ok, why, r) == [ok |-> ok, failure |-> why, args |-> r]
  IN
  IF build_info /\ ~env.build_info_exists
    THEN Ret(FALSE, "BuildInfoMissing", a)
  ELSE IF ~env.manifest_isfile
    THEN Ret(FALSE, "ManifestMissing", a)
  ELSE IF a.android_manifest # NONE /\ ~env.android_manifest_isfile
    THEN Ret(FALSE, "AndroidManifestMissing", a)
  ELSE IF ~env.input_dir_isdir
    THEN Ret(FALSE, "InputDirMissing", a1)
  ELSE IF OutputAlreadyExists(a1, out)
    THEN Ret(FALSE, "OutputAlreadyExists", a1)
  ELSE IF a2.payload_type = "image" /\ a2.key = NONE /\ ~a2.unsigned_payload
    THEN Ret(FALSE, "MissingRequiredInput", a2)
  ELSE IF a2.payload_type = "image" /\ a2.file_contexts = NONE /\ ~build_info
    THEN Ret(FALSE, "MissingRequiredInput", a2)
  ELSE IF a3.payload_type = "image" /\ a3.canned_fs_config = NONE /\ ~build_info
    THEN Ret(FALSE, "MissingRequiredInput", a3)
  ELSE Ret(TRUE, NONE, a4)

\* The fields of a that hold a temporary file made by ValidateArgs.
TempsOf(a) ==
  { f \in {"android_manifest", "file_contexts", "canned_fs_config"} : a[f] = "temp" }

\* CreateApex: `if not ValidateArgs(args): return False`
ValidateArgs ==
  /\ pc = "ValidateArgs"
  /\ \E env \in ValidateArgsEnv :
       LET r == ValidateArgsOutcome(args, env, output) IN
       /\ args' = r.args
       /\ tempFiles' = tempFiles \cup TempsOf(r.args)
       /\ IF r.ok
          THEN /\ pc' = NextStep("ValidateArgs", r.args, 0)
               /\ stages' = Enter("Validating")
               /\ UNCHANGED failure
          ELSE ReturnFalse(r.failure, "Validating")
  /\ UNCHANGED <<fnVars, descriptor_package, output0, output, outPayload, fsVars, img, imgEntries,
                 apex_version_code, canned_fs_config, tools, lastReturn, apex_zip, payloadReadBy,
                 exitStatus>>

----------------------------------------------------------------------------
(* CreateApex up to the staging of the input *)

\* CreateApex: ValidateApexManifest(args.manifest) under try/except, then the
\* content and manifests directories are made.  The manifest module is not
\* part of apexer.py: its outcome and the version it reports are drawn here.
ValidateApexManifest ==
  /\ pc = "ValidateApexManifest"
  /\ \E res \in {"valid", "ApexManifestError", "IOError"}, v \in Versions :
       IF res = "valid"
       THEN /\ pc' = NextStep("ValidateApexManifest", args, 0)
            /\ apex_version_code' = v
            /\ workDir' = workDir \cup {"content", "manifests"}
            /\ stages' = Enter("Validating")
            /\ UNCHANGED failure
       ELSE /\ ReturnFalse(IF res = "IOError" THEN "ManifestUnreadable"
                           ELSE "ManifestInvalid", "Validating")
            /\ UNCHANGED <<apex_version_code, workDir>>
  /\ UNCHANGED <<fnVars, descriptor_package, output0, args, output, outPayload, tempFiles, workDirExists, inputDir,
                 stagingDir, manifestsDir, contentDir, tmp_input_dir, img,
                 imgEntries, canned_fs_config, tools, lastReturn, apex_zip, payloadReadBy,
                 exitStatus>>

\* ValidateAndroidManifest: `if package_in_xml != package: raise`
PackageNameMismatch(package_in_xml, package) == package_in_xml # package

\* Variant: the descriptor is compared with the APK package name when
\* --override_apk_package_name is given.
ValidatedPackage_Override(manifest_name, override_apk_package_name) ==
  IF override_apk_package_name # NONE
  THEN override_apk_package_name ELSE manifest_name

\* CreateAndroidManifestXml:
\* `ValidateAndroidManifest(manifest_apex.name, args.android_manifest)`
ValidatedPackage(manifest_name, override_apk_package_name) == manifest_name

\* CreateAndroidManifestXml: a descriptor is generated in the work directory
\* when none is in effect; otherwise the one in effect is parsed, its package
\* attribute is compared with the manifest name and it is copied.
\* args.override_apk_package_name, which no other statement modelled here
\* reads, is drawn on the spot.
CreateAndroidManifestXml ==
  /\ pc = "CreateAndroidManifestXml"
  /\ IF args.android_manifest = NONE
     THEN /\ workDir' = workDir \cup {"AndroidManifest.xml"}
          /\ args' = [args EXCEPT !.android_manifest = "work_dir"]
          /\ pc' = NextStep("CreateAndroidManifestXml", args, 0)
          /\ stages' = Enter("Validating")
          /\ UNCHANGED <<failure, descriptor_package>>
     ELSE \E pkg \in {"com.example.mod", "com.example.other", "ParseError"},
             override \in {NONE, "com.example.other"} :
            /\ descriptor_package' = pkg
            /\ IF pkg = "ParseError"
               THEN /\ Raise("ParseError", "Validating")
                    /\ UNCHANGED <<workDir, args>>
               ELSE IF PackageNameMismatch(pkg, ValidatedPackage("com.example.mod", override))
               THEN /\ Raise("PackageNameMismatch", "Validating")
                    /\ UNCHANGED <<workDir, args>>
               ELSE /\ workDir' = workDir \cup {"AndroidManifest.xml"}
                    /\ pc' = NextStep("CreateAndroidManifestXml", args, 0)
                    /\ stages' = Enter("Validating")
                    /\ UNCHANGED <<failure, args>>
  /\ UNCHANGED <<fnVars, output0, output, outPayload, tempFiles, workDirExists, inputDir,
                 stagingDir, manifestsDir, contentDir, tmp_input_dir, img,
                 imgEntries, apex_version_code, canned_fs_config, tools, lastReturn,
                 apex_zip, payloadReadBy, exitStatus>>

\* CreateApex: the serialized manifest is written to the manifests directory
\* and to the content directory.
WriteManifests ==
  /\ pc = "WriteManifests"
  /\ pc' = NextStep("WriteManifests", args, 0)
  /\ manifestsDir' = {apex_manifest_pb}
  /\ contentDir' = {"apex_manifest.pb"}
  /\ stages' = Enter("Validating")
  /\ UNCHANGED <<fnVars, descriptor_package, output0, args, output, outPayload, tempFiles, workDirExists, workDir,
                 inputDir, stagingDir, tmp_input_dir, img, imgEntries,
                 apex_version_code, canned_fs_config, tools, lastReturn, apex_zip, payloadReadBy,
                 failure, exitStatus>>

\* [\w\.\-\_] under re.ASCII
VersionChars ==
  {"a","b","c","d","e","f","g","h","i","j","k","l","m","n","o","p","q","r","s",
   "t","u","v","w","x","y","z","A","B","C","D","E","F","G","H","I","J","K","L",
   "M","N","O","P","Q","R","S","T","U","V","W","X","Y","Z","0","1","2","3","4",
   "5","6","7","8","9","_",".","-"}

\* re.match(r'^[\w\.\-\_]+$', s, re.ASCII): one or more characters of the
\* class up to the end of the string; `$` also matches just before a newline
\* that ends the string.
VersionReMatch(s) ==
  LET body == IF Len(s) > 0 /\ Last(s) = "\n" THEN SubSeq(s, 1, Len(s) - 1) ELSE s
      AllIn(t) == \A i \in 1..Len(t) : t[i] \in VersionChars
  IN \/ Len(s) > 0 /\ AllIn(s)
     \/ Len(body) > 0 /\ AllIn(body)

\* os.walk over the top-level files of args.input_dir: root_relative is '.',
\* dest is staging_input_dir/f.
StagedTopLevel(files) == { f : f \in files }

\* ReplaceApexVersionPlaceholder: the version string is checked, the
\* ownership table is rewritten into the work directory when there is one,
\* and the input files are copied to work_dir/input.  CreateApexPayload is
\* entered next.
ReplaceApexVersionPlaceholder ==
  /\ pc = "ReplaceApexVersionPlaceholder"
  /\ IF ~VersionReMatch(apex_version_code)
     THEN /\ Raise("UnsafeVersionString", "Staging")
          /\ UNCHANGED <<workDir, canned_fs_config, stagingDir>>
     ELSE /\ canned_fs_config' =
               IF args.canned_fs_config # NONE THEN "work_dir" ELSE NONE
          /\ workDir' = workDir \cup {"input"} \cup
               (IF args.canned_fs_config # NONE THEN {"canned_fs_config"} ELSE {})
          /\ stagingDir' = StagedTopLevel(inputDir)
          /\ pc' = NextStep("ReplaceApexVersionPlaceholder", args, 0)
          /\ stages' = Enter("Staging")
          /\ UNCHANGED failure
  /\ UNCHANGED <<fnVars, descriptor_package, output0, args, output, outPayload, tempFiles, workDirExists, inputDir,
                 manifestsDir, contentDir, tmp_input_dir, img, imgEntries,
                 apex_version_code, tools, lastReturn, apex_zip, payloadReadBy, exitStatus>>

----------------------------------------------------------------------------
(* RunCommand and the external tools of CreateApexPayload *)

\* glob.glob(dir + '/*'): `*` does not match a name that starts with a dot.
Glob(dir) == { n \in dir : n[1] # "." }

\* The expected_return_values of each RunCommand call site, the process it
\* spawns and the pipeline stage it belongs to.
Commands ==
  [ mke2fs              |-> [tool |-> "mke2fs", expected |-> {0}, stage |-> "ImageBuilding"],
    sefcontext_compile  |-> [tool |-> "sefcontext_compile", expected |-> {0}, stage |-> "ImageBuilding"],
    e2fsdroid_staging   |-> [tool |-> "e2fsdroid", expected |-> {0}, stage |-> "ImageBuilding"],
    e2fsdroid_manifests |-> [tool |-> "e2fsdroid", expected |-> {0}, stage |-> "ImageBuilding"],
    resize2fs           |-> [tool |-> "resize2fs", expected |-> {0}, stage |-> "ImageBuilding"],
    fallocate           |-> [tool |-> "/usr/bin/fallocate", expected |-> {0}, stage |-> "ImageBuilding"],
    make_f2fs           |-> [tool |-> "make_f2fs", expected |-> {0}, stage |-> "ImageBuilding"],
    sload_manifests     |-> [tool |-> "sload_f2fs", expected |-> {0, 1}, stage |-> "ImageBuilding"],
    sload_staging       |-> [tool |-> "sload_f2fs", expected |-> {0, 1}, stage |-> "ImageBuilding"],
    cp                  |-> [tool |-> "/bin/cp", expected |-> {0}, stage |-> "ImageBuilding"],
    make_erofs          |-> [tool |-> "make_erofs", expected |-> {0}, stage |-> "ImageBuilding"],
    ls                  |-> [tool |-> "/bin/ls", expected |-> {0}, stage |-> "ImageBuilding"],
    fallocate_8k        |-> [tool |-> "/usr/bin/fallocate", expected |-> {0}, stage |-> "ImageBuilding"],
    soong_zip           |-> [tool |-> "soong_zip", expected |-> {0}, stage |-> "ImageBuilding"],
    add_hashtree_footer |-> [tool |-> "avbtool add_hashtree_footer", expected |-> {0}, stage |-> "Signing"],
    info_image          |-> [tool |-> "avbtool info_image", expected |-> {0}, stage |-> "Signing"],
    resize_image        |-> [tool |-> "avbtool resize_image", expected |-> {0}, stage |-> "Signing"],
    aapt2               |-> [tool |-> "aapt2", expected |-> {0}, stage |-> "Assembling"] ]

\* Variant: the return code is not checked.
ReturnCodeAccepted_Any(returncode, expected_return_values) == TRUE

\* RunCommand: `assert p.returncode in expected_return_values`
ReturnCodeAccepted(returncode, expected_return_values) ==
  returncode \in expected_return_values

\* The steps whose tool writes the payload file.
PayloadWriters ==
  {"mke2fs", "e2fsdroid_staging", "e2fsdroid_manifests", "resize2fs",
   "fallocate", "make_f2fs", "sload_manifests", "sload_staging", "make_erofs",
   "fallocate_8k", "soong_zip", "add_hashtree_footer", "resize_image"}

\* The directory entries the tool of a step is given to put in the payload.
EntriesGiven(step) ==
  CASE step \in {"e2fsdroid_staging", "sload_staging"} -> stagingDir
    [] step \in {"e2fsdroid_manifests", "sload_manifests"} -> manifestsDir
    [] step = "make_erofs" -> tmp_input_dir
    [] step = "soong_zip" -> stagingDir \cup manifestsDir
    [] OTHER -> {}

\* The name of the payload file in the content directory.
PayloadName(a) ==
  IF a.payload_type = "image" THEN "apex_payload.img" ELSE "apex_payload.zip"

\* The values a step puts on its command line as paths: args.file_contexts,
\* args.key and the canned_fs_config handed down by CreateApex.
PathsRead(step, a, canned) ==
  CASE step = "sefcontext_compile" -> {a.file_contexts}
    [] step \in {"e2fsdroid_staging", "e2fsdroid_manifests"} -> {canned}
    [] step \in {"sload_manifests", "sload_staging", "make_erofs"} ->
         {canned, a.file_contexts}
    [] step = "add_hashtree_footer" -> {a.key}
    [] OTHER -> {}

\* One RunCommand call of the pipeline, with what the code does around it.
\* A None among the paths of the command line is a TypeError; FindBinaryPath
\* raises when the binary is in no tool directory; otherwise the process is
\* spawned and its return code is checked.
RunCommand(step) ==
  /\ pc = step
  /\ LET c == Commands[step]
         \* CreateImageErofs: os.mkdir(tmp_input_dir) precedes the cp command
         made == IF step = "cp" THEN workDir \cup {"tmp_input_dir"} ELSE workDir
     IN \E found \in BOOLEAN, returncode \in ReturnCodes, image_size \in ImageSizes :
          IF NONE \in PathsRead(step, args, canned_fs_config)
          THEN /\ Raise("TypeError", c.stage)
               /\ workDir' = made
               /\ UNCHANGED <<tools, lastReturn, img, imgEntries, tmp_input_dir, contentDir>>
          ELSE IF ~found
          THEN /\ Raise("ToolNotFound", c.stage)
               /\ workDir' = made
               /\ UNCHANGED <<tools, lastReturn, img, imgEntries, tmp_input_dir, contentDir>>
          ELSE /\ tools' = Append(tools, c.tool)
               /\ lastReturn' = [step |-> step, returncode |-> returncode]
               /\ IF ~ReturnCodeAccepted(returncode, c.expected)
                  THEN /\ Raise("ExternalToolFailed", c.stage)
                       /\ workDir' = made
                       /\ UNCHANGED <<img, imgEntries, tmp_input_dir, contentDir>>
                  ELSE /\ pc' = NextStep(step, args, image_size)
                       /\ stages' = Enter(c.stage)
                       /\ img' = IF step \in PayloadWriters
                                 THEN Append(img, c.tool) ELSE img
                       /\ imgEntries' = imgEntries \cup EntriesGiven(step)
                       /\ tmp_input_dir' =
                            CASE step = "cp" -> Glob(manifestsDir) \cup Glob(stagingDir)
                              [] step = "make_erofs" -> {}
                              [] OTHER -> tmp_input_dir
                       /\ workDir' =
                            CASE step = "sefcontext_compile" -> made \cup {"file_contexts.bin"}
                              [] step = "make_erofs" -> made \ {"tmp_input_dir"}
                              [] step = "aapt2" -> made \cup {"apex.apk"}
                              [] OTHER -> made
                       /\ contentDir' = IF step \in PayloadWriters
                                        THEN contentDir \cup {PayloadName(args)}
                                        ELSE contentDir
                       /\ UNCHANGED failure
  /\ UNCHANGED <<fnVars, descriptor_package, output0, args, output, outPayload, tempFiles, workDirExists, inputDir,
                 stagingDir, manifestsDir, apex_version_code,
                 canned_fs_config, apex_zip, payloadReadBy, exitStatus>>

\* CreateImageExt4: mke2fs, sefcontext_compile, e2fsdroid on the staging
\* directory, e2fsdroid on the manifests directory, resize2fs.
CreateImageExt4 ==
  \E step \in {"mke2fs", "sefcontext_compile", "e2fsdroid_staging",
                "e2fsdroid_manifests", "resize2fs"} : RunCommand(step)

\* CreateImageF2fs: fallocate, make_f2fs, sload_f2fs on the manifests
\* directory, sload_f2fs on the staging directory.
CreateImageF2fs ==
  \E step \in {"fallocate", "make_f2fs", "sload_manifests", "sload_staging"} :
     RunCommand(step)

\* CreateImageErofs: cp into tmp_input_dir, make_erofs, ls, and fallocate to
\* 8k when the image is 4096 bytes.
CreateImageErofs ==
  \E step \in {"cp", "make_erofs", "ls", "fallocate_8k"} : RunCommand(step)

\* SignImage: avbtool add_hashtree_footer, info_image, resize_image.
SignImage ==
  \E step \in {"add_hashtree_footer", "info_image", "resize_image"} :
     RunCommand(step)

\* CreateApexPayload, zip payload: soong_zip.
CreateApexPayloadZip == RunCommand("soong_zip")

----------------------------------------------------------------------------
(* CreateApex after the payload *)

\* Variant: the payload-only modes are ignored.
PayloadOnly_Never(a) == FALSE

\* CreateApex: `if args.unsigned_payload_only or args.payload_only`
PayloadOnly(a) == a.unsigned_payload_only \/ a.payload_only

\* What a write of the output path can come to: the file is never opened, it
\* is opened (created or truncated) and the write fails, or it completes.
WriteOutcomes == {"open_failed", "failed_inside", "ok"}

\* CreateApex: shutil.copyfile(img_file, args.output); return True
PayloadOnlyCopy ==
  /\ pc = "payload_done"
  /\ PayloadOnly(args)
  /\ \E res \in WriteOutcomes :
       CASE res = "ok" ->
              /\ output' = "payload"
              /\ outPayload' = img
              /\ payloadReadBy' = payloadReadBy \cup {"copyfile"}
              /\ ReturnTrue("Assembling")
         [] res = "failed_inside" ->
              /\ output' = "partial"
              /\ payloadReadBy' = payloadReadBy \cup {"copyfile"}
              /\ Raise("IOError", "Assembling")
              /\ UNCHANGED outPayload
         [] res = "open_failed" ->
              /\ Raise("IOError", "Assembling")
              /\ UNCHANGED <<output, outPayload, payloadReadBy>>
  /\ UNCHANGED <<fnVars, descriptor_package, output0, args, tempFiles, fsVars, img, imgEntries, apex_version_code,
                 canned_fs_config, tools, lastReturn, apex_zip, exitStatus>>

\* GenerateBuildInfo: open(file_contexts), open(canned_fs_config) and
\* open(android_manifest).
GenerateBuildInfoReads(a, canned) == {a.file_contexts, canned, a.android_manifest}

\* CreateApex: `if args.pubkey:` the public key is copied to the content
\* directory.
WithPubkey(dir, pubkey) == IF pubkey # NONE THEN dir \cup {"apex_pubkey"} ELSE dir

\* CreateApex: past the payload-only return the public key is copied when
\* --pubkey is given (args.pubkey, which no other statement modelled here
\* reads, is drawn on the spot) and the build-info record is written to the
\* content directory when args.include_build_info is set.
GenerateBuildInfo ==
  /\ pc = "payload_done"
  /\ ~PayloadOnly(args)
  /\ \E pubkey \in {NONE, "given"} :
       IF args.include_build_info
       THEN IF NONE \in GenerateBuildInfoReads(args, canned_fs_config)
            THEN /\ Raise("TypeError", "Assembling")
                 /\ contentDir' = WithPubkey(contentDir, pubkey)
            ELSE /\ contentDir' = WithPubkey(contentDir, pubkey) \cup {"apex_build_info.pb"}
                 /\ pc' = NextStep("payload_done", args, 0)
                 /\ stages' = Enter("Assembling")
                 /\ UNCHANGED failure
       ELSE /\ contentDir' = WithPubkey(contentDir, pubkey)
            /\ pc' = NextStep("payload_done", args, 0)
            /\ stages' = Enter("Assembling")
            /\ UNCHANGED failure
  /\ UNCHANGED <<fnVars, descriptor_package, output0, args, output, outPayload, tempFiles, workDirExists, workDir,
                 inputDir, stagingDir, manifestsDir, tmp_input_dir, img,
                 imgEntries, apex_version_code, canned_fs_config, tools, lastReturn,
                 apex_zip, payloadReadBy, exitStatus>>

\* CreateApex: aapt2 link
Aapt2Link == RunCommand("aapt2")

\* CreateZip(content_dir, zip_file): every file of the content directory is
\* read and written to work_dir/apex.zip.
CreateZip ==
  /\ pc = "CreateZip"
  /\ payloadReadBy' = payloadReadBy \cup {"CreateZip"}
  /\ \E ok \in BOOLEAN :
       IF ok
       THEN /\ apex_zip' = img
            /\ workDir' = workDir \cup {"apex.zip"}
            /\ pc' = NextStep("CreateZip", args, 0)
            /\ stages' = Enter("Assembling")
            /\ UNCHANGED failure
       ELSE /\ Raise("IOError", "Assembling")
            /\ workDir' = workDir \cup {"apex.zip"}
            /\ UNCHANGED apex_zip
  /\ UNCHANGED <<fnVars, descriptor_package, output0, args, output, outPayload, tempFiles, workDirExists, inputDir,
                 stagingDir, manifestsDir, contentDir, tmp_input_dir, img,
                 imgEntries, apex_version_code, canned_fs_config, tools, lastReturn,
                 exitStatus>>

\* MergeZips([apk_file, zip_file], args.output): the output is opened for
\* writing, then the entries of apex.apk and of apex.zip are read and written
\* to it.
MergeZips ==
  /\ pc = "MergeZips"
  /\ \E res \in WriteOutcomes :
       CASE res = "ok" ->
              /\ output' = "apex"
              /\ outPayload' = apex_zip
              /\ payloadReadBy' = payloadReadBy \cup {"MergeZips"}
              /\ ReturnTrue("Assembling")
         [] res = "failed_inside" ->
              /\ output' = "partial"
              /\ Raise("IOError", "Assembling")
              /\ UNCHANGED <<outPayload, payloadReadBy>>
         [] res = "open_failed" ->
              /\ Raise("IOError", "Assembling")
              /\ UNCHANGED <<output, outPayload, payloadReadBy>>
  /\ UNCHANGED <<fnVars, descriptor_package, output0, args, tempFiles, fsVars, img, imgEntries, apex_version_code,
                 canned_fs_config, tools, lastReturn, apex_zip, exitStatus>>

----------------------------------------------------------------------------
(* Specification *)

Next ==
  \/ TempDirectory__enter__
  \/ ValidateArgs
  \/ ValidateApexManifest
  \/ CreateAndroidManifestXml
  \/ WriteManifests
  \/ ReplaceApexVersionPlaceholder
  \/ CreateImageExt4
  \/ CreateImageF2fs
  \/ CreateImageErofs
  \/ SignImage
  \/ CreateApexPayloadZip
  \/ PayloadOnlyCopy
  \/ GenerateBuildInfo
  \/ Aapt2Link
  \/ CreateZip
  \/ MergeZips
  \/ TempDirectory__exit__

Spec == Init /\ [][Next]_vars

----------------------------------------------------------------------------
(* Properties *)

Range(s) == { s[i] : i \in 1..Len(s) }

Count(s, x) == Cardinality({ i \in 1..Len(s) : s[i] = x })

Ended == pc \in {"returned", "raised", "exited"}

\* The payload file as each image builder leaves it.
BuilderImages(a) ==
  IF a.payload_type = "zip" THEN { <<"soong_zip">> }
  ELSE CASE a.payload_fs_type = "ext4" ->
              { <<"mke2fs", "e2fsdroid", "e2fsdroid", "resize2fs">> }
         [] a.payload_fs_type = "f2fs" ->
              { <<"/usr/bin/fallocate", "make_f2fs", "sload_f2fs", "sload_f2fs">> }
         [] a.payload_fs_type = "erofs" ->
              { <<"make_erofs">>, <<"make_erofs", "/usr/bin/fallocate">> }

SignerTools ==
  {"avbtool add_hashtree_footer", "avbtool info_image", "avbtool resize_image"}

\* The payload file once the signer has attached the footer and resized it.
SignedImages(a) ==
  { b \o <<"avbtool add_hashtree_footer", "avbtool resize_image">> :
      b \in BuilderImages(a) }

\* The payload file as it must be when assembly reads it.
FinalImages(a) ==
  IF a.payload_type = "image" /\ ~a.unsigned_payload
  THEN SignedImages(a) ELSE BuilderImages(a)

\* C1: when the process has exited, whatever the outcome of CreateApex, the
\* work directory and everything under it (input, manifests, content) is
\* gone.
C1_WorkDirRemoved ==
  pc = "exited" =>
    /\ ~workDirExists
    /\ workDir = {} /\ stagingDir = {} /\ manifestsDir = {} /\ contentDir = {}

\* A build whose work directory held input, manifests and content has exited
\* on the failure of an external tool.
C1_Witness ==
  /\ pc = "exited"
  /\ failure = "ExternalToolFailed"
  /\ "Staging" \in Range(stages)

StageRank(s) ==
  CASE s = "Validating" -> 1
    [] s = "Staging" -> 2
    [] s = "ImageBuilding" -> 3
    [] s = "Signing" -> 4
    [] s = "Assembling" -> 5
    [] s = "Done" -> 6
    [] s = "Failed" -> 7

\* C2: the stages are entered in the order Validating, Staging,
\* ImageBuilding, Signing (only for a signed image payload), Assembling,
\* Done; no stage is entered again or before an earlier one; a failure is
\* the last thing that happens; a build that succeeds went through all of
\* them.
C2_StageOrder ==
  /\ \A i, j \in 1..Len(stages) :
       i < j => StageRank(stages[i]) < StageRank(stages[j])
  /\ "Signing" \in Range(stages) =>
       args.payload_type = "image" /\ ~args.unsigned_payload
  /\ failure # NONE => Ended /\ Last(stages) = "Failed"
  /\ (Ended /\ failure = NONE) =>
       stages = IF args.payload_type = "image" /\ ~args.unsigned_payload
                THEN <<"Validating", "Staging", "ImageBuilding", "Signing",
                       "Assembling", "Done">>
                ELSE <<"Validating", "Staging", "ImageBuilding",
                       "Assembling", "Done">>

\* A signed build has gone through every stage and is done.
C2_Witness ==
  /\ pc = "exited"
  /\ failure = NONE
  /\ "Signing" \in Range(stages)

\* C3: a build that failed and was run without the override flag has left
\* the output path as it found it (no file is created by a failed build).
C3_NoOutputFromFailedBuild ==
  (failure # NONE /\ ~args.force) => output = output0

\* A process has been spawned by RunCommand.
Spawned == lastReturn.step # NONE

\* The last process returned a code outside the accepted set of its call
\* site.
Rejected ==
  Spawned /\ lastReturn.returncode \notin Commands[lastReturn.step].expected

\* C4: a return code outside the accepted set of its call site ends the
\* build as failed and no process is spawned after it; a build fails with
\* ExternalToolFailed only on such a return code, so an accepted return code
\* lets the pipeline continue.
C4_UnexpectedReturnCodeAborts ==
  /\ [](Rejected => (pc \in {"raised", "exited"} /\ failure = "ExternalToolFailed"))
  /\ []((Spawned /\ ~Rejected) => failure # "ExternalToolFailed")
  /\ [][Rejected => tools' = tools]_vars

\* The flash-filesystem loader returned 1 and the pipeline went on; a later
\* tool returned an unexpected code and the build was aborted.
C4_Witness ==
  /\ pc = "raised"
  /\ failure = "ExternalToolFailed"
  /\ lastReturn.step = "sload_staging"
  /\ lastReturn.returncode = 2

\* C5: once ValidateArgs has returned True, every path a later step is
\* about to read (the key in SignImage, file_contexts and canned_fs_config in
\* CreateImage and GenerateBuildInfo) is present.
C5_RequiredFieldsPresent ==
  /\ pc \in DOMAIN Commands => NONE \notin PathsRead(pc, args, canned_fs_config)
  /\ (pc = "payload_done" /\ ~PayloadOnly(args) /\ args.include_build_info) =>
       NONE \notin GenerateBuildInfoReads(args, canned_fs_config)

ValidationFailures ==
  {"ManifestInvalid", "ManifestUnreadable", "PackageNameMismatch",
   "MissingRequiredInput", "UnsafeVersionString", "OutputAlreadyExists"}

\* C6: when a validation-class failure is detected no external process has
\* been spawned and nothing has been written to the output path.
C6_ValidationBeforeTools ==
  failure \in ValidationFailures =>
    /\ tools = <<>>
    /\ output = output0
    /\ outPayload = <<>>

\* The version string was found unsafe after the arguments, the manifest
\* and the descriptor had passed.
C6_Witness ==
  /\ failure = "UnsafeVersionString"
  /\ "Staging" \in Range(stages)

\* C7: if a file is at the output path when the build starts and the
\* override flag is not set, the build fails during validation, no external
\* tool is spawned and the file is left as it was.
C7_ExistingOutputRefused ==
  (output0 = "preexisting" /\ ~args.force) =>
    /\ tools = <<>>
    /\ output = "preexisting"
    /\ pc \in {"main", "ValidateArgs", "returned", "exited"}
    /\ pc \in {"returned", "exited"} =>
         (failure # NONE /\ stages = <<"Validating", "Failed">>)

\* The build was refused because the output exists.
C7_Witness ==
  /\ output0 = "preexisting"
  /\ ~args.force
  /\ pc = "exited"
  /\ failure = "OutputAlreadyExists"

\* C8: when unsigned output is requested the signing tool is never spawned
\* and the payload written to the output is the image as the builder left
\* it; otherwise, for an image payload, SignImage runs at most once, only on
\* an image the builder has finished, and exactly once in a build that gets
\* past CreateApexPayload.
C8_UnsignedSkipsSigner ==
  LET requested == args.unsigned_payload \/ args.unsigned_payload_only
      pastPayload == pc \in {"payload_done", "aapt2", "CreateZip", "MergeZips"}
                     \/ output \in {"payload", "apex"}
  IN /\ requested =>
          /\ Range(tools) \cap SignerTools = {}
          /\ output \in {"payload", "apex"} => outPayload \in BuilderImages(args)
     /\ (~requested /\ args.payload_type = "image") =>
          /\ \A t \in SignerTools : Count(tools, t) <= 1
          /\ Range(tools) \cap SignerTools # {} =>
               \E b \in BuilderImages(args) :
                  /\ Len(img) >= Len(b)
                  /\ SubSeq(img, 1, Len(b)) = b
          /\ pastPayload => \A t \in SignerTools : Count(tools, t) = 1

\* An unsigned-payload-only build, asked for without --unsigned_payload and
\* with a key, has written its payload.
C8_Witness ==
  /\ args.unsigned_payload_only
  /\ args.key # NONE
  /\ args.payload_type = "image"
  /\ output = "payload"

\* C9: when assembly reads the payload (CreateZip, MergeZips, the
\* payload-only copy) every operation on the payload file has completed, and
\* no step that reads it or follows a read changes it.
C9_PayloadFinalBeforeAssembly ==
  /\ [](payloadReadBy # {} => img \in FinalImages(args))
  /\ [](output \in {"payload", "apex"} => outPayload = img)
  /\ [][payloadReadBy' # {} => img' = img]_vars

\* A signed image has been read by CreateZip and MergeZips and is in the
\* output.
C9_Witness ==
  /\ output = "apex"
  /\ payloadReadBy = {"CreateZip", "MergeZips"}
  /\ "avbtool resize_image" \in Range(img)

\* C10: for each backend, once the image builder has finished, the entries
\* it was given are all the entries of the manifests directory and all the
\* entries of the staging directory.
C10_ImageHoldsManifestAndStaged ==
  (args.payload_type = "image" /\ pc \in {"add_hashtree_footer", "payload_done"}) =>
    imgEntries = manifestsDir \cup stagingDir

\* C17: when a descriptor from outside the pipeline (--android_manifest or
\* the build-info record) has been parsed, a package attribute that differs
\* from the manifest name has failed the build with nothing staged and no
\* external tool spawned, and a package attribute equal to the manifest name
\* has not failed this check, whatever override_apk_package_name was.
C17_DescriptorPackageChecked ==
  /\ (descriptor_package \notin {NONE, "ParseError", "com.example.mod"}) =>
       /\ failure = "PackageNameMismatch"
       /\ pc \in {"raised", "exited"}
       /\ "Staging" \notin Range(stages)
       /\ stagingDir = {}
       /\ tools = <<>>
  /\ descriptor_package = "com.example.mod" =>
       /\ failure # "PackageNameMismatch"
       /\ "AndroidManifest.xml" \in workDir \/ ~workDirExists

\* The descriptor taken from the build-info record names another package
\* and the build has failed on it.
C17_Witness ==
  /\ args.android_manifest = "temp"
  /\ descriptor_package = "com.example.other"
  /\ failure = "PackageNameMismatch"

\* C19: when the process has ended every temporary file the build created
\* has been removed.
C19_TempFilesRemoved ==
  pc = "exited" => tempFiles = {}

(***************************************************************************)
(* Functions studied alone: no build is running.                           *)
(***************************************************************************)

\* No build is in progress.
BuildIdle ==
  /\ pc = "idle"
  /\ args = NONE
  /\ output = "absent"
  /\ output0 = "absent"
  /\ outPayload = <<>>
  /\ workDirExists = FALSE
  /\ workDir = {}
  /\ tempFiles = {}
  /\ inputDir = {}
  /\ stagingDir = {}
  /\ manifestsDir = {}
  /\ contentDir = {}
  /\ tmp_input_dir = {}
  /\ img = <<>>
  /\ imgEntries = {}
  /\ apex_version_code = <<>>
  /\ canned_fs_config = NONE
  /\ tools = <<>>
  /\ lastReturn = [step |-> NONE, returncode |-> 0]
  /\ stages = <<>>
  /\ apex_zip = <<>>
  /\ payloadReadBy = {}
  /\ failure = NONE
  /\ exitStatus = -1
  /\ descriptor_package = NONE

(***************************************************************************)
(* SignImage: the partition size handed to avbtool resize_image.           *)
(***************************************************************************)

\* The largest number of whole blocks in a footer offset.
MaxBlocks == 3

\* Python's x & y on non-negative integers.
RECURSIVE BitAnd(_, _)
BitAnd(x, y) ==
  IF x = 0 \/ y = 0 THEN 0
  ELSE 2 * BitAnd(x \div 2, y \div 2) + (IF x % 2 = 1 /\ y % 2 = 1 THEN 1 ELSE 0)

\* Python's x & ~m on non-negative integers of unbounded width.
BitAndNot(x, m) == x - BitAnd(x, m)

\* Variant: the size is rounded down.
RoundUp_Down(size, unit) == BitAndNot(size, unit - 1)

\* RoundUp: `(size + unit - 1) & (~(unit - 1))`
RoundUp(size, unit) == BitAndNot(size + unit - 1, unit - 1)

\* SignImage: `RoundUp(vbmeta_offset + vbmeta_size, BLOCK_SIZE) + BLOCK_SIZE`
PartitionSize(vbmeta_offset, vbmeta_size) ==
  RoundUp(vbmeta_offset + vbmeta_size, BLOCK_SIZE) + BLOCK_SIZE

\* The footer offsets avbtool info_image may report: on, just after and just
\* before a block boundary.
VBMetaOffsets ==
  { k * BLOCK_SIZE + d : k \in 0..MaxBlocks, d \in {0, 1, BLOCK_SIZE - 1} }

\* The footer sizes avbtool info_image may report.
VBMetaSizes == {1, 576, BLOCK_SIZE - 1, BLOCK_SIZE, BLOCK_SIZE + 1}

\* avbtool add_hashtree_footer has run; info_image is about to report.
InitSign ==
  /\ BuildIdle
  /\ fnPc = "info_image"
  /\ fnIn \in [vbmeta_offset : VBMetaOffsets, vbmeta_size : VBMetaSizes]
  /\ fnOut = NONE

\* SignImage: the report is parsed and the partition size computed.
InfoImage ==
  /\ fnPc = "info_image"
  /\ fnOut' = [partition_size |-> PartitionSize(fnIn.vbmeta_offset, fnIn.vbmeta_size)]
  /\ fnPc' = "resize_image"
  /\ UNCHANGED <<fnIn, buildVars>>

\* SignImage: avbtool resize_image --partition_size runs.
ResizeImage ==
  /\ fnPc = "resize_image"
  /\ fnPc' = "resized"
  /\ UNCHANGED <<fnIn, fnOut, buildVars>>

NextSign == InfoImage \/ ResizeImage

SpecSign == InitSign /\ [][NextSign]_vars

\* C20: the partition size passed to resize_image is a multiple of 4096 and
\* is the smallest multiple of 4096 that is at least offset + size, plus
\* exactly one more block of 4096, so it is never below the footer's end.
C20_PartitionSize ==
  fnPc \in {"resize_image", "resized"} =>
    LET end == fnIn.vbmeta_offset + fnIn.vbmeta_size
        p == fnOut.partition_size - 4096
    IN /\ fnOut.partition_size % 4096 = 0
       /\ p >= end
       /\ p - 4096 < end
       /\ fnOut.partition_size > end

\* A footer that ends one byte past a block boundary has been rounded to the
\* next boundary and given one more block.
C20_Witness ==
  /\ fnPc = "resized"
  /\ fnIn.vbmeta_offset = 2 * 4096
  /\ fnIn.vbmeta_size = 4096 + 1
  /\ fnOut.partition_size = 5 * 4096

(***************************************************************************)
(* ReplaceApexVersionPlaceholder alone: strings are sequences of           *)
(* characters, the input tree holds directories, files and symbolic links. *)
(***************************************************************************)

\* ParseArgs: the default of --apex_version_placeholder.
apex_version_placeholder ==
  <<"_","_","A","P","E","X","_","V","E","R","S","I","O","N","_",
    "P","L","A","C","E","H","O","L","D","E","R","_","_">>

\* str.replace(old, new): every non-overlapping occurrence, left to right.
RECURSIVE StrReplace(_, _, _)
StrReplace(s, old, new) ==
  IF Len(s) < Len(old) THEN s
  ELSE IF SubSeq(s, 1, Len(old)) = old
  THEN new \o StrReplace(SubSeq(s, Len(old) + 1, Len(s)), old, new)
  ELSE <<Head(s)>> \o StrReplace(Tail(s), old, new)

\* The version strings manifest_apex.version may be converted to.
StagingVersions ==
  { <<>>, <<"1">>, <<"1","\n">>, <<"\n">>, <<"1","/">>, <<"a",".","-","_">> }

\* The content of an ownership table.
CannedFsConfigFiles ==
  { <<"/","f"," ","0">>,
    <<"/","l","i","b">> \o apex_version_placeholder \o <<"/","x">> \o
      apex_version_placeholder \o <<" ","0">> }

\* The content of args.canned_fs_config, or none.
CannedFsConfigs ==
  { NONE,
    <<"/","f"," ","0">>,
    <<"/","l","i","b">> \o apex_version_placeholder \o <<"/","x">> \o
      apex_version_placeholder \o <<" ","0">> }

\* The directory lib<placeholder> of the input tree.
LibDir == <<"l","i","b">> \o apex_version_placeholder

\* The entries an input tree may hold; root is relative to args.input_dir.
InputEntries ==
  { [root |-> <<".">>, name |-> <<"f">>, kind |-> "file", target |-> NONE],
    [root |-> <<".">>, name |-> apex_version_placeholder \o <<".","s","o">>,
     kind |-> "file", target |-> NONE],
    [root |-> <<".">>, name |-> LibDir, kind |-> "dir", target |-> NONE],
    [root |-> LibDir, name |-> <<"x">> \o apex_version_placeholder,
     kind |-> "file", target |-> NONE],
    [root |-> LibDir, name |-> <<"l","s">>, kind |-> "link", target |-> <<"l","s">>],
    [root |-> <<".">>, name |-> <<"l","f">>, kind |-> "link", target |-> <<"f">>],
    [root |-> <<".">>, name |-> <<"l","d">>, kind |-> "link", target |-> LibDir],
    [root |-> <<".">>, name |-> <<"l","b">>, kind |-> "link",
     target |-> <<"n","o","n","e">>] }

\* The trees: every entry below the top lies in a directory of the tree.
InputTrees ==
  { t \in SUBSET InputEntries :
      \A e \in t : e.root # <<".">> =>
        \E d \in t : d.kind = "dir" /\ d.root = <<".">> /\ d.name = e.root }

\* os.path.join(root, name) relative to the top, normalised.
JoinPath(root, name) ==
  IF root = <<".">> THEN name ELSE root \o <<"/">> \o name

\* os.walk (followlinks=False) lists under dirs every entry whose is_dir() is
\* true, a symbolic link that resolves to a directory included; everything
\* else, broken and self-referential links included, is listed under files.
WalkIsDir(e, tree) ==
  \/ e.kind = "dir"
  \/ /\ e.kind = "link"
     /\ e.target # e.name
     /\ \E d \in tree : d.kind = "dir" /\ JoinPath(d.root, d.name) = JoinPath(e.root, e.target)

\* os.walk: the `files` of every directory visited.
WalkFiles(tree) == { e \in tree : ~WalkIsDir(e, tree) }

\* The destination of a file relative to staging_input_dir: only
\* root_relative goes through replace.
DestPath(e, placeholder, version) ==
  JoinPath(StrReplace(e.root, placeholder, version), e.name)

\* shutil.copy2(src, dest, follow_symlinks=False): a link is recreated with
\* the same target, a file is copied.
Copy2(e, dest) == [path |-> dest, kind |-> e.kind, target |-> e.target]

\* The loop over os.walk(args.input_dir).
StageInputDir(tree, placeholder, version) ==
  { Copy2(e, DestPath(e, placeholder, version)) : e \in WalkFiles(tree) }

\* The function is entered with a version string, an ownership table and an
\* input tree.
InitStaging ==
  /\ BuildIdle
  /\ fnPc = "version_re"
  /\ fnIn \in [apex_version_code : StagingVersions,
               canned_fs_config : CannedFsConfigs,
               input_dir : InputTrees]
  /\ fnOut = [failure |-> NONE, work_dir |-> {}, canned_fs_config |-> NONE,
              staging_input_dir |-> {}]

\* `if not re.match(version_re, apex_version_code, re.ASCII): raise`
StagingVersionCheck ==
  /\ fnPc = "version_re"
  /\ IF VersionReMatch(fnIn.apex_version_code)
     THEN /\ fnPc' = "canned_fs_config"
          /\ UNCHANGED fnOut
     ELSE /\ fnPc' = "raised"
          /\ fnOut' = [fnOut EXCEPT !.failure = "UnsafeVersionString"]
  /\ UNCHANGED <<fnIn, buildVars>>

\* The ownership table is read, rewritten and written to the work directory.
StagingCannedFsConfig ==
  /\ fnPc = "canned_fs_config"
  /\ fnOut' =
       IF fnIn.canned_fs_config # NONE
       THEN [fnOut EXCEPT
               !.canned_fs_config =
                  StrReplace(fnIn.canned_fs_config, apex_version_placeholder,
                             fnIn.apex_version_code),
               !.work_dir = @ \cup {"canned_fs_config"}]
       ELSE fnOut
  /\ fnPc' = "walk"
  /\ UNCHANGED <<fnIn, buildVars>>

\* The input tree is copied to work_dir/input.
StagingWalk ==
  /\ fnPc = "walk"
  /\ fnOut' = [fnOut EXCEPT
                 !.work_dir = @ \cup {"input"},
                 !.staging_input_dir =
                    StageInputDir(fnIn.input_dir, apex_version_placeholder,
                                  fnIn.apex_version_code)]
  /\ fnPc' = "returned"
  /\ UNCHANGED <<fnIn, buildVars>>

NextStaging == StagingVersionCheck \/ StagingCannedFsConfig \/ StagingWalk

SpecStaging == InitStaging /\ [][NextStaging]_vars

\* s contains sub.
Contains(s, sub) ==
  \E i \in 1..(Len(s) - Len(sub) + 1) : SubSeq(s, i, i + Len(sub) - 1) = sub

\* s is non-empty and made only of [A-Za-z0-9_.-].
SafeVersion(s) == Len(s) > 0 /\ \A i \in 1..Len(s) : s[i] \in VersionChars

\* C11: a version string that is empty or holds a character outside
\* [A-Za-z0-9_.-] (a final newline included) makes the function fail with
\* nothing written to the work directory, and a non-empty string of those
\* characters passes the version check.
C11_VersionStringChecked ==
  fnPc # "version_re" =>
    /\ SafeVersion(fnIn.apex_version_code) <=> fnOut.failure # "UnsafeVersionString"
    /\ fnOut.failure = "UnsafeVersionString" => fnOut.work_dir = {}

C13_LinksStagedAsLinks ==
  fnPc = "returned" =>
    \A e \in fnIn.input_dir : e.kind = "link" =>
      \E s \in fnOut.staging_input_dir :
        /\ s.path = DestPath(e, apex_version_placeholder, fnIn.apex_version_code)
        /\ s.kind = "link"
        /\ s.target = e.target

(***************************************************************************)
(* CreateZip and MergeZips alone, for two builds of the same inputs.       *)
(* An archive is the sequence of its entries; an entry records its name,   *)
(* timestamp, external attributes (high and low 16 bits), the length of    *)
(* its extra field, the length of its data as stored, and whether its size *)
(* is beyond ZIP64_LIMIT.                                                  *)
(***************************************************************************)

\* struct.calcsize of zipfile's local file header.
sizeFileHeader == 30

\* The length of the zip64 record zipfile writes for both sizes.
sizeZip64Extra == 20

\* The builds compared.
Runs == {1, 2}

\* The timestamps the clock and the descriptor package may show.
DateTimes == { <<1980, 1, 1, 0, 0, 0>>, <<2026, 11, 5, 11, 0, 0>> }

\* The lengths of the first entry of the descriptor package as stored.
MaxApkBlocks == 1
ApkSizes == { k * BLOCK_SIZE + d : k \in 0..MaxApkBlocks, d \in {0, 1, 4001} }

\* apex.apk as aapt2 link leaves it.
ApkFiles ==
  { << [filename |-> "AndroidManifest.xml", date_time |-> t, external_attr |-> a,
        extra |-> 0, compress_size |-> n, zip64 |-> FALSE] >> \o rest :
      t \in DateTimes, a \in { <<0, 0>>, <<33261, 32>> }, n \in ApkSizes,
      rest \in { <<>>,
                 << [filename |-> "resources.arsc", date_time |-> <<1980, 1, 1, 0, 0, 0>>,
                     external_attr |-> <<0, 0>>, extra |-> 0, compress_size |-> 8,
                     zip64 |-> FALSE] >> } }

\* The files of content_dir: the manifest and the payload image, and the
\* public key unless the payload is unsigned.  zip64 tells that the payload
\* image is larger than ZIP64_LIMIT (its length is then kept modulo 2^31).
ContentDirs ==
  { { [filename |-> "apex_manifest.pb", st_mode |-> 33188, compress_size |-> 12, zip64 |-> FALSE],
      [filename |-> "apex_payload.img", st_mode |-> 33152, compress_size |-> BLOCK_SIZE, zip64 |-> z] }
    \cup k :
      z \in BOOLEAN,
      k \in { {}, { [filename |-> "apex_pubkey", st_mode |-> 33188, compress_size |-> 7,
                     zip64 |-> FALSE] } } }

\* The orders in which os.walk may list the files of a directory.
Listings(dir) ==
  { s \in [1..Cardinality(dir) -> dir] : \A i, j \in 1..Cardinality(dir) : s[i] = s[j] => i = j }

\* zipfile writes a zip64 record into the central directory of an entry
\* larger than ZIP64_LIMIT; infolist() hands it back in info.extra.
CentralExtra(zip64) == IF zip64 THEN sizeZip64Extra ELSE 0

\* ZipFile.write(path, rel_path): ZipInfo.from_file takes the timestamp from
\* st_mtime and the attributes from st_mode.
ZipWrite(f, mtime) ==
  [filename |-> f.filename, date_time |-> mtime, external_attr |-> <<f.st_mode, 0>>,
   extra |-> CentralExtra(f.zip64), compress_size |-> f.compress_size, zip64 |-> f.zip64]

\* CreateZip: one entry per file, in the order os.walk lists them.
CreateZipEntries(listing, mtime) ==
  [i \in 1..Len(listing) |-> ZipWrite(listing[i], mtime)]

\* len(info.FileHeader()): the fixed header, the name, the extra field and,
\* for a size beyond ZIP64_LIMIT, one more zip64 record.
FileHeaderLen(info) ==
  sizeFileHeader + Len(info.filename) + info.extra + CentralExtra(info.zip64)

\* Variant: the timestamp and the attributes are copied as found.
ResetInfo_Keep(info) == info

\* MergeZips: `info.date_time = (1980, 1, 1, 0, 0, 0)`,
\* `info.external_attr = 0x81A40000`
ResetInfo(info) ==
  [info EXCEPT !.date_time = <<1980, 1, 1, 0, 0, 0>>, !.external_attr = <<33188, 0>>]

\* Variant: no padding when the data are already aligned.
PadPayload_NoneWhenAligned(info, tell) ==
  IF info.filename = "apex_payload.img"
  THEN [info EXCEPT !.extra =
          (BLOCK_SIZE - ((tell + FileHeaderLen(info)) % BLOCK_SIZE)) % BLOCK_SIZE]
  ELSE info

\* MergeZips: `info.extra = b'\0' * (BLOCK_SIZE - data_offset % BLOCK_SIZE)`
\* with data_offset = out.fp.tell() + len(info.FileHeader())
PadPayload(info, tell) ==
  IF info.filename = "apex_payload.img"
  THEN [info EXCEPT !.extra = BLOCK_SIZE - ((tell + FileHeaderLen(info)) % BLOCK_SIZE)]
  ELSE info

\* MergeZips: the entries of infos are copied one by one after `out`, which
\* ends at offset tell; data_offset is where the data of apex_payload.img
\* begin (-1: no such entry yet).
RECURSIVE MergeCopy(_, _, _, _)
MergeCopy(infos, out, tell, data_offset) ==
  IF infos = <<>>
  THEN [out |-> out, data_offset |-> data_offset]
  ELSE LET info == PadPayload(ResetInfo(Head(infos)), tell)
           data == tell + FileHeaderLen(info)
       IN MergeCopy(Tail(infos), Append(out, info), data + info.compress_size,
                    IF info.filename = "apex_payload.img" THEN data ELSE data_offset)

\* MergeZips(zip_files, output_zip): the archives are copied in the order
\* given.
MergeZipsEntries(zip_files) ==
  MergeCopy(zip_files[1] \o zip_files[2], <<>>, 0, -1)

\* Two builds of the same descriptor package and content files reach
\* CreateZip.
InitZip ==
  /\ BuildIdle
  /\ fnPc = [r \in Runs |-> "CreateZip"]
  /\ fnIn \in [apk_file : ApkFiles, content_dir : ContentDirs]
  /\ fnOut = [r \in Runs |-> [zip_file |-> <<>>, out |-> <<>>, data_offset |-> -1]]

\* CreateApex: `CreateZip(content_dir, zip_file)` in build r.
ZipCreate(r) ==
  /\ fnPc[r] = "CreateZip"
  /\ \E listing \in Listings(fnIn.content_dir), mtime \in DateTimes :
       fnOut' = [fnOut EXCEPT ![r].zip_file = CreateZipEntries(listing, mtime)]
  /\ fnPc' = [fnPc EXCEPT ![r] = "MergeZips"]
  /\ UNCHANGED <<fnIn, buildVars>>

\* CreateApex: `MergeZips([apk_file, zip_file], args.output)` in build r.
ZipMerge(r) ==
  /\ fnPc[r] = "MergeZips"
  /\ LET m == MergeZipsEntries(<<fnIn.apk_file, fnOut[r].zip_file>>)
     IN fnOut' = [fnOut EXCEPT ![r].out = m.out, ![r].data_offset = m.data_offset]
  /\ fnPc' = [fnPc EXCEPT ![r] = "returned"]
  /\ UNCHANGED <<fnIn, buildVars>>

NextZip == \E r \in Runs : ZipCreate(r) \/ ZipMerge(r)

SpecZip == InitZip /\ [][NextZip]_vars

\* The names of the entries of an archive, in order.
Names(zip) == [i \in 1..Len(zip) |-> zip[i].filename]

\* C14: in the archive MergeZips wrote, the data of apex_payload.img begin
\* at a multiple of 4096.
C14_PayloadDataAligned ==
  \A r \in Runs : fnPc[r] = "returned" => fnOut[r].data_offset % 4096 = 0

\* C15: two builds of the same inputs end with the same archive.
C15_SameInputsSameOutput ==
  (\A r \in Runs : fnPc[r] = "returned") => fnOut[1].out = fnOut[2].out

\* C18: in the archive MergeZips wrote the entries of the descriptor package
\* come first, then those of the content zip, each in the order of its
\* input and none dropped, and every entry has timestamp 1980-01-01 00:00:00
\* and external attributes 0x81A4 (high half) 0x0000 (low half).
C18_MergedInOrderAndReset ==
  \A r \in Runs : fnPc[r] = "returned" =>
    /\ Names(fnOut[r].out) = Names(fnIn.apk_file) \o Names(fnOut[r].zip_file)
    /\ \A i \in 1..Len(fnOut[r].out) :
         /\ fnOut[r].out[i].date_time = <<1980, 1, 1, 0, 0, 0>>
         /\ fnOut[r].out[i].external_attr = <<33188, 0>>
         /\ LET src == (fnIn.apk_file \o fnOut[r].zip_file)[i]
            IN fnOut[r].out[i].compress_size = src.compress_size

\* A descriptor package of two entries with another timestamp and other
\* attributes and a content zip of three entries written now have been
\* merged.
C18_Witness ==
  /\ fnPc[1] = "returned"
  /\ Len(fnIn.apk_file) = 2
  /\ fnIn.apk_file[1].date_time = <<2026, 11, 5, 11, 0, 0>>
  /\ fnIn.apk_file[1].external_attr = <<33261, 32>>
  /\ Len(fnOut[1].zip_file) = 3
  /\ fnOut[1].zip_file[1].date_time = <<2026, 11, 5, 11, 0, 0>>
  /\ Len(fnOut[1].out) = 5

(***************************************************************************)
(* Two builds run as separate processes with the same output path.         *)
(***************************************************************************)

\* The processes.
Procs == {1, 2}

\* Both processes have parsed their arguments; the output path may hold a
\* file already.
InitRace ==
  /\ BuildIdle
  /\ fnPc = [p \in Procs |-> "ValidateArgs"]
  /\ fnIn \in [force : [Procs -> BOOLEAN], payload_only : [Procs -> BOOLEAN]]
  /\ \E out \in {"absent", "preexisting"} :
       fnOut = [output |-> out, overwrote |-> {}, lastWriter |-> 0]

\* ValidateArgs in process p: the build is refused when the output exists
\* and --force is not given.
RaceValidateArgs(p) ==
  /\ fnPc[p] = "ValidateArgs"
  /\ fnPc' = [fnPc EXCEPT ![p] =
                IF OutputAlreadyExists([force |-> fnIn.force[p]], fnOut.output)
                THEN "returned_false" ELSE "CreateApexPayload"]
  /\ UNCHANGED <<fnIn, fnOut, buildVars>>

\* CreateApex in process p from the manifest to the payload, in its own
\* work directory: it raises, or it reaches the step that writes the output.
RaceCreateApexPayload(p) ==
  /\ fnPc[p] = "CreateApexPayload"
  /\ \E ok \in BOOLEAN :
       fnPc' = [fnPc EXCEPT ![p] =
                  IF ~ok THEN "raised"
                  ELSE IF fnIn.payload_only[p] THEN "copyfile" ELSE "MergeZips"]
  /\ UNCHANGED <<fnIn, fnOut, buildVars>>

\* shutil.copyfile(img_file, args.output) or MergeZips(..., args.output) in
\* process p: the path is opened for writing, which truncates a file that
\* is there.
RaceWriteOutput(p) ==
  /\ fnPc[p] \in {"copyfile", "MergeZips"}
  /\ fnOut' = [output |-> IF fnPc[p] = "copyfile" THEN "payload" ELSE "apex",
               overwrote |-> IF fnOut.output # "absent"
                             THEN fnOut.overwrote \cup {p} ELSE fnOut.overwrote,
               lastWriter |-> p]
  /\ fnPc' = [fnPc EXCEPT ![p] = "returned"]
  /\ UNCHANGED <<fnIn, buildVars>>

NextRace ==
  \E p \in Procs : RaceValidateArgs(p) \/ RaceCreateApexPayload(p) \/ RaceWriteOutput(p)

SpecRace == InitRace /\ [][NextRace]_vars

\* C16: a build started without --force never writes over a file that is at
\* its output path when it writes.
C16_NoOverwriteWithoutForce ==
  \A p \in fnOut.overwrote : fnIn.force[p]

\* The length of the entries of an archive before entry i: header, name,
\* extra field and data of each.
RECURSIVE LengthBefore(_, _)
LengthBefore(zip, i) ==
  IF i <= 1 THEN 0
  ELSE LengthBefore(zip, i - 1) + 30 + Len(zip[i - 1].filename) + zip[i - 1].extra
         + zip[i - 1].compress_size

\* Where the data of entry i of the merged archive would begin had the entry
\* been written with its header as it was read from its input archive.
UnpaddedDataOffset(out, src, i) ==
  LengthBefore(out, i) + 30 + Len(src[i].filename) + src[i].extra
    + (IF src[i].zip64 THEN 20 ELSE 0)

\* C28: the padding stored as the extra field of apex_payload.img is between
\* 1 and 4096 bytes long, and is 4096 bytes long when the data of the entry
\* would begin at a multiple of 4096 without it.
C28_PaddingBetween1And4096 ==
  \A r \in Runs : fnPc[r] = "returned" =>
    \A i \in 1..Len(fnOut[r].out) :
      fnOut[r].out[i].filename = "apex_payload.img" =>
        /\ fnOut[r].out[i].extra \in 1..4096
        /\ UnpaddedDataOffset(fnOut[r].out, fnIn.apk_file \o fnOut[r].zip_file, i) % 4096 = 0
             => fnOut[r].out[i].extra = 4096

\* The payload entry would have been aligned as it was and has been given
\* 4096 bytes of padding.
C28_Witness ==
  /\ fnPc[1] = "returned"
  /\ \E i \in 1..Len(fnOut[1].out) :
       /\ fnOut[1].out[i].filename = "apex_payload.img"
       /\ UnpaddedDataOffset(fnOut[1].out, fnIn.apk_file \o fnOut[1].zip_file, i) % 4096 = 0
       /\ fnOut[1].out[i].extra = 4096

(***************************************************************************)
(* CreateImageErofs from make_erofs on: the size of the image file.        *)
(***************************************************************************)

\* The largest number of whole blocks in the image make_erofs writes.
MaxErofsBlocks == 5

\* The sizes of the image file make_erofs may leave.
ErofsSizes ==
  { k * BLOCK_SIZE + d : k \in 0..MaxErofsBlocks, d \in {0, 1, 2, BLOCK_SIZE - 1} }

\* The decimal digits of n, as ls prints a size.
RECURSIVE Decimal(_)
Decimal(n) ==
  IF n < 10 THEN <<n>> ELSE Append(Decimal(n \div 10), n % 10)

\* int(s) of a string of decimal digits.
RECURSIVE ParseInt(_)
ParseInt(s) ==
  IF s = <<>> THEN 0 ELSE 10 * ParseInt(SubSeq(s, 1, Len(s) - 1)) + s[Len(s)]

\* The output of `/bin/ls -lgG img_file`, split at white space: mode, link
\* count, size, date, time, name.
LsOutput(size) == << "-rw-------", "1", Decimal(size), "Nov", "5", "12:00", "apex_payload.img" >>

\* `image_size = int(output.split()[2])`
ParseImageSize(ls_output) == ParseInt(ls_output[3])

\* Variant: the image is never padded.
NeedsPadding_Never(image_size) == FALSE

\* `if image_size == 4096:`
NeedsPadding(image_size) == image_size = 4096

\* `/usr/bin/fallocate -l 8k img_file`: the file is extended to 8 KiB when
\* it is shorter.
Fallocate8k(size) == IF size < 8 * 1024 THEN 8 * 1024 ELSE size

\* cp has run; make_erofs is about to write the image.
InitErofs ==
  /\ BuildIdle
  /\ fnPc = "make_erofs"
  /\ fnIn \in [made : ErofsSizes]
  /\ fnOut = [size |-> 0, image_size |-> -1, returncode |-> 0]

\* make_erofs writes the image file.
ErofsMake ==
  /\ fnPc = "make_erofs"
  /\ fnOut' = [fnOut EXCEPT !.size = fnIn.made]
  /\ fnPc' = "ls"
  /\ UNCHANGED <<fnIn, buildVars>>

\* /bin/ls runs and its output is parsed; a return code other than 0 leaves
\* the function by the assertion of RunCommand.
ErofsLs ==
  /\ fnPc = "ls"
  /\ \E returncode \in ReturnCodes :
       IF ReturnCodeAccepted(returncode, {0})
       THEN LET image_size == ParseImageSize(LsOutput(fnOut.size))
            IN /\ fnOut' = [fnOut EXCEPT !.image_size = image_size,
                                         !.returncode = returncode]
               /\ fnPc' = IF NeedsPadding(image_size) THEN "fallocate" ELSE "returned"
       ELSE /\ fnOut' = [fnOut EXCEPT !.returncode = returncode]
            /\ fnPc' = "raised"
  /\ UNCHANGED <<fnIn, buildVars>>

\* /usr/bin/fallocate -l 8k runs.
ErofsFallocate ==
  /\ fnPc = "fallocate"
  /\ \E returncode \in ReturnCodes :
       IF ReturnCodeAccepted(returncode, {0})
       THEN /\ fnOut' = [fnOut EXCEPT !.size = Fallocate8k(fnOut.size),
                                      !.returncode = returncode]
            /\ fnPc' = "returned"
       ELSE /\ fnOut' = [fnOut EXCEPT !.returncode = returncode]
            /\ fnPc' = "raised"
  /\ UNCHANGED <<fnIn, buildVars>>

NextErofs == ErofsMake \/ ErofsLs \/ ErofsFallocate

SpecErofs == InitErofs /\ [][NextErofs]_vars

\* C23: when CreateImageErofs returns, an image that make_erofs left at
\* exactly 4096 bytes is 8192 bytes long and an image of any other size has
\* kept its size.
C23_ErofsMinimumPadded ==
  fnPc = "returned" =>
    fnOut.size = (IF fnIn.made = 4096 THEN 8192 ELSE fnIn.made)

\* An image of one block has been extended to two.
C23_Witness ==
  /\ fnPc = "returned"
  /\ fnIn.made = 4096
  /\ fnOut.image_size = 4096
  /\ fnOut.size = 8192

(***************************************************************************)
(* CreateImageExt4: the size handed to mke2fs.                             *)
(***************************************************************************)

\* The largest number of files in the staging directory.
MaxFiles == 2

\* 1024 * 1024
MiB == 1024 * 1024

\* What os.walk finds in a flat staging directory: the size and kind of each
\* name under `filenames` (a broken link is no file for os.path.isfile).
StagedFiles ==
  [getsize : {0, 1, BLOCK_SIZE, MiB - BLOCK_SIZE, MiB}, isfile : {TRUE}] \cup
  [getsize : {0}, isfile : {FALSE}]

\* The staging directories: the directory's own size and its files in walk
\* order.
StagingDirs ==
  [getsize : {BLOCK_SIZE},
   filenames : UNION { [1..n -> StagedFiles] : n \in 0..MaxFiles }]

\* GetDirSize: the loop over filenames.
RECURSIVE SumFiles(_)
SumFiles(filenames) ==
  IF filenames = <<>> THEN 0
  ELSE (IF Head(filenames).isfile THEN RoundUp(Head(filenames).getsize, BLOCK_SIZE) ELSE 0)
         + SumFiles(Tail(filenames))

\* GetDirSize(dir_name) for a directory without subdirectories.
GetDirSize(dir) == RoundUp(dir.getsize, BLOCK_SIZE) + SumFiles(dir.filenames)

\* `size_in_mb = (GetDirSize(staging_input_dir) // (1024 * 1024))`,
\* `size_in_mb += 16`
SizeInMb(dir) == (GetDirSize(dir) \div (1024 * 1024)) + 16

\* mke2fs reads the size argument `str(size_in_mb) + 'M'` as mebibytes.
Mke2fsSize(size_in_mb) == size_in_mb * MiB

\* CreateImageExt4 is entered with a staging directory.
InitExt4 ==
  /\ BuildIdle
  /\ fnPc = "GetDirSize"
  /\ fnIn \in [staging_input_dir : StagingDirs]
  /\ fnOut = [size_in_mb |-> 0, image_bytes |-> 0]

\* The size argument is computed.
Ext4SizeInMb ==
  /\ fnPc = "GetDirSize"
  /\ fnOut' = [fnOut EXCEPT !.size_in_mb = SizeInMb(fnIn.staging_input_dir)]
  /\ fnPc' = "mke2fs"
  /\ UNCHANGED <<fnIn, buildVars>>

\* mke2fs makes an image of the size requested.
Ext4Mke2fs ==
  /\ fnPc = "mke2fs"
  /\ fnOut' = [fnOut EXCEPT !.image_bytes = Mke2fsSize(fnOut.size_in_mb)]
  /\ fnPc' = "sefcontext_compile"
  /\ UNCHANGED <<fnIn, buildVars>>

NextExt4 == Ext4SizeInMb \/ Ext4Mke2fs

SpecExt4 == InitExt4 /\ [][NextExt4]_vars

\* The sizes of the directory and of its regular files, each rounded up to
\* a multiple of 4096, summed.
RECURSIVE StagedBytes(_, _)
StagedBytes(dir, n) ==
  IF n = 0 THEN ((dir.getsize + 4095) \div 4096) * 4096
  ELSE StagedBytes(dir, n - 1) +
       (IF dir.filenames[n].isfile
        THEN ((dir.filenames[n].getsize + 4095) \div 4096) * 4096 ELSE 0)

\* C21: the size requested from mke2fs, in bytes, is at least the staged
\* byte-size plus 16 MiB.
C21_Ext4SizeHasMargin ==
  fnPc = "sefcontext_compile" =>
    fnOut.image_bytes >=
      StagedBytes(fnIn.staging_input_dir, Len(fnIn.staging_input_dir.filenames))
        + 16 * 1024 * 1024

(***************************************************************************)
(* FindBinaryPath and RunCommand: how a tool name becomes the file that is *)
(* executed.  A path is the sequence of its components, "/" first when it  *)
(* is absolute.                                                            *)
(***************************************************************************)

\* The longest list of tool directories.
MaxToolDirs == 2

\* The directories --apexer_tool_path may name.
ToolDirs == { <<"/", "t1">>, <<"/", "t2">> }

\* The lists of tool directories, without repetition.
ToolPathLists ==
  UNION { { l \in [1..n -> ToolDirs] : \A i, j \in 1..n : l[i] = l[j] => i = j } :
          n \in 0..MaxToolDirs }

\* The names RunCommand is called with: cmd[0] of a relative and of an
\* absolute call site.
Binaries == { <<"mke2fs">>, <<"/", "usr", "bin", "fallocate">>, <<"/", "bin", "ls">> }

\* The files that may exist.
ToolFiles ==
  { <<"/", "t1", "mke2fs">>, <<"/", "t2", "mke2fs">>,
    <<"/", "t2", "fallocate">>, <<"/", "usr", "bin", "fallocate">> }

\* os.path.join(path, binary): an absolute second argument discards the
\* first.
OsPathJoin(path, binary) ==
  IF binary[1] = "/" THEN binary ELSE path \o binary

\* FindBinaryPath(binary): the first join that exists, or NONE when the loop
\* ends and the exception is raised.
RECURSIVE FindBinaryPath(_, _, _)
FindBinaryPath(binary, tool_path_list, exists) ==
  IF tool_path_list = <<>> THEN NONE
  ELSE IF OsPathJoin(Head(tool_path_list), binary) \in exists
  THEN OsPathJoin(Head(tool_path_list), binary)
  ELSE FindBinaryPath(binary, Tail(tool_path_list), exists)

\* RunCommand is called with a tool name.
InitTools ==
  /\ BuildIdle
  /\ fnPc = "RunCommand"
  /\ fnIn \in [binary : Binaries, tool_path_list : ToolPathLists,
               exists : SUBSET ToolFiles]
  /\ fnOut = [cmd0 |-> NONE, spawned |-> FALSE]

\* `cmd[0] = FindBinaryPath(cmd[0])`
ToolsFind ==
  /\ fnPc = "RunCommand"
  /\ LET binary_path == FindBinaryPath(fnIn.binary, fnIn.tool_path_list, fnIn.exists)
     IN IF binary_path = NONE
        THEN /\ fnPc' = "raised"
             /\ UNCHANGED fnOut
        ELSE /\ fnPc' = "Popen"
             /\ fnOut' = [fnOut EXCEPT !.cmd0 = binary_path]
  /\ UNCHANGED <<fnIn, buildVars>>

\* `subprocess.Popen(cmd, ...)`
ToolsPopen ==
  /\ fnPc = "Popen"
  /\ fnOut' = [fnOut EXCEPT !.spawned = TRUE]
  /\ fnPc' = "communicate"
  /\ UNCHANGED <<fnIn, buildVars>>

NextTools == ToolsFind \/ ToolsPopen

SpecTools == InitTools /\ [][NextTools]_vars

\* The last component of a path.
BaseName(path) == <<path[Len(path)]>>

\* Directory i of the list holds a file with the name of the binary.
DirHolds(i) == fnIn.tool_path_list[i] \o BaseName(fnIn.binary) \in fnIn.exists

\* C25: the file executed lies in the first tool directory of the list that
\* holds the binary, and when no directory holds it the call fails without
\* spawning a process; for relative and absolute tool names alike.
C25_ToolsFromToolDirs ==
  /\ fnPc \in {"Popen", "communicate"} =>
       \E i \in 1..Len(fnIn.tool_path_list) :
         /\ DirHolds(i)
         /\ \A j \in 1..(i - 1) : ~DirHolds(j)
         /\ fnOut.cmd0 = fnIn.tool_path_list[i] \o BaseName(fnIn.binary)
  /\ (\A i \in 1..Len(fnIn.tool_path_list) : ~DirHolds(i)) =>
       /\ ~fnOut.spawned
       /\ fnPc \in {"RunCommand", "raised"}

\* The failures CreateApex reports by returning False.
ReturnedFalse ==
  {"BuildInfoMissing", "ManifestMissing", "AndroidManifestMissing",
   "InputDirMissing", "OutputAlreadyExists", "MissingRequiredInput",
   "ManifestInvalid", "ManifestUnreadable"}

\* C24: the exit status is 0 exactly when the build reached Done and 1 for
\* every failure, whether CreateApex returned False or an exception or an
\* assertion left it.
C24_ExitStatus ==
  /\ pc = "exited" =>
       /\ exitStatus \in {0, 1}
       /\ exitStatus = 0 <=> (stages # <<>> /\ Last(stages) = "Done")
       /\ failure # NONE => exitStatus = 1
       /\ "Failed" \in Range(stages) => exitStatus = 1
  /\ pc # "exited" => exitStatus = -1

\* A build refused by ValidateArgs, which returns False, has ended with
\* status 1.
C24_Witness ==
  /\ pc = "exited"
  /\ failure \in ReturnedFalse
  /\ exitStatus = 1

\* C26: a build in payload_only or unsigned_payload_only mode never runs
\* aapt2, CreateZip or MergeZips and never puts the public key or the
\* build-info record in the content directory; when it succeeds the output
\* is a copy of the payload file; and once ValidateArgs has passed,
\* unsigned_payload_only implies payload_only and unsigned_payload.
C26_PayloadOnlyWritesPayloadOnly ==
  /\ (args.payload_only \/ args.unsigned_payload_only) =>
       /\ "aapt2" \notin Range(tools)
       /\ apex_zip = <<>>
       /\ payloadReadBy \subseteq {"copyfile"}
       /\ contentDir \cap {"apex_pubkey", "apex_build_info.pb"} = {}
       /\ "apex.apk" \notin workDir
       /\ output \in {output0, "payload", "partial"}
       /\ (Ended /\ failure = NONE /\ "Done" \in Range(stages)) =>
            /\ output = "payload"
            /\ outPayload = img
            /\ payloadReadBy = {"copyfile"}
  /\ (args.unsigned_payload_only /\ pc \notin {"main", "ValidateArgs"}
        /\ failure \notin ValidationFailures \cup ReturnedFalse) =>
       /\ args.payload_only
       /\ args.unsigned_payload

\* A build with --payload_only and a key has written its signed image to
\* the output.
C26_Witness ==
  /\ args.payload_only
  /\ ~args.unsigned_payload_only
  /\ args.payload_type = "image"
  /\ pc = "exited"
  /\ exitStatus = 0
  /\ output = "payload"
  /\ "avbtool resize_image" \in Range(outPayload)

(***************************************************************************)
(* The copy loop of ReplaceApexVersionPlaceholder on a file system: the    *)
(* input directory and the staging directory are functions from paths to   *)
(* what is there, and files are copied one by one in walk order.           *)
(***************************************************************************)

\* The absolute path of args.input_dir.
InputDirAbs == <<"/", "i", "n">>

\* The directory lib1 of the input tree.
Lib1Dir == <<"l", "i", "b", "1">>

\* What may be found under the name x of a directory of the input tree: a
\* regular file, a link to the file f of the input directory by its
\* absolute path, or a link to a name beside it.
EntriesX(root, data) ==
  { [root |-> root, name |-> <<"x">>, kind |-> "file", target |-> <<>>, data |-> data],
    [root |-> root, name |-> <<"x">>, kind |-> "link",
     target |-> InputDirAbs \o <<"/", "f">>, data |-> NONE],
    [root |-> root, name |-> <<"x">>, kind |-> "link", target |-> <<"y">>, data |-> NONE] }

\* The orders in which os.walk hands over the files of an input directory
\* that holds lib<placeholder>/x and lib1/x and may hold f: the top first,
\* then the two directories in listing order.
Walks ==
  { top \o sub :
      top \in { <<>>, << [root |-> <<".">>, name |-> <<"f">>, kind |-> "file",
                          target |-> <<>>, data |-> "f"] >> },
      sub \in UNION { { <<a, b>>, <<b, a>> } :
                      a \in EntriesX(LibDir, "a"), b \in EntriesX(Lib1Dir, "b") } }

\* The regular files of the input directory by path, with their content.
InputFiles(walk) ==
  { [path |-> JoinPath(walk[i].root, walk[i].name), data |-> walk[i].data] :
      i \in { j \in 1..Len(walk) : walk[j].kind = "file" } }

\* The path below args.input_dir that an absolute link target names, or
\* the empty path when the target is relative.
InInputDir(target) ==
  IF Len(target) > Len(InputDirAbs) + 1
     /\ SubSeq(target, 1, Len(InputDirAbs) + 1) = InputDirAbs \o <<"/">>
  THEN SubSeq(target, Len(InputDirAbs) + 2, Len(target))
  ELSE <<>>

\* The files of dir with the file at path replaced by, or created with,
\* data.
WriteFile(dir, path, data) ==
  { f \in dir : f.path # path } \cup { [path |-> path, data |-> data] }

\* shutil.copy2(src, dest, follow_symlinks=False) for the walk entry e on
\* the file system fs: a link is recreated with os.symlink, which fails when
\* dest exists; a file is written with open(dest, 'wb'), which follows a
\* link that is at dest, after the test that src and dest are not the same
\* file.
Copy2On(fs, e, dest) ==
  LET at == { s \in fs.staging : s.path = dest }
      there == CHOOSE s \in at : TRUE
  IN IF e.kind = "link"
     THEN IF at # {} THEN [fs EXCEPT !.failure = "FileExistsError"]
          ELSE [fs EXCEPT !.staging = @ \cup {[path |-> dest, kind |-> "link",
                                               target |-> e.target, data |-> NONE]}]
     ELSE IF at = {} \/ there.kind = "file"
     THEN [fs EXCEPT !.staging = (@ \ at) \cup {[path |-> dest, kind |-> "file",
                                                 target |-> <<>>, data |-> e.data]}]
     ELSE IF InInputDir(there.target) = <<>>
     THEN [fs EXCEPT !.staging = @ \cup
             {[path |-> JoinPath(StrReplace(e.root, apex_version_placeholder,
                                            fnIn.apex_version_code), there.target),
               kind |-> "file", target |-> <<>>, data |-> e.data]}]
     ELSE IF InInputDir(there.target) = JoinPath(e.root, e.name)
     THEN [fs EXCEPT !.failure = "SameFileError"]
     ELSE [fs EXCEPT !.input_dir = WriteFile(@, InInputDir(there.target), e.data)]

\* The version check has passed; the ownership table and the input tree are
\* as the caller left them and the staging directory is empty.
InitCopy ==
  /\ BuildIdle
  /\ fnPc = "canned_fs_config"
  /\ fnIn \in [apex_version_code : { <<"1">>, <<"2">> },
               canned_fs_config : CannedFsConfigFiles,
               walk : Walks]
  /\ fnOut = [input_dir |-> InputFiles(fnIn.walk),
              canned_fs_config_file |-> fnIn.canned_fs_config,
              new_canned_fs_config |-> NONE,
              staging |-> {}, copied |-> 0, failure |-> NONE]

\* The ownership table is read and its rewritten content is written to
\* work_dir/canned_fs_config.
CopyCannedFsConfig ==
  /\ fnPc = "canned_fs_config"
  /\ fnOut' = [fnOut EXCEPT !.new_canned_fs_config =
                 StrReplace(fnOut.canned_fs_config_file, apex_version_placeholder,
                            fnIn.apex_version_code)]
  /\ fnPc' = "walk"
  /\ UNCHANGED <<fnIn, buildVars>>

\* One turn of `for f in files`: the next file of the walk is copied.
CopyNext ==
  /\ fnPc = "walk"
  /\ fnOut.copied < Len(fnIn.walk)
  /\ LET e == fnIn.walk[fnOut.copied + 1]
         fs == Copy2On(fnOut, e, DestPath(e, apex_version_placeholder, fnIn.apex_version_code))
     IN /\ fnOut' = [fs EXCEPT !.copied = @ + 1]
        /\ fnPc' = IF fs.failure # NONE THEN "raised" ELSE "walk"
  /\ UNCHANGED <<fnIn, buildVars>>

\* The walk is over and the function returns.
CopyReturn ==
  /\ fnPc = "walk"
  /\ fnOut.copied = Len(fnIn.walk)
  /\ fnPc' = "returned"
  /\ UNCHANGED <<fnIn, fnOut, buildVars>>

NextCopy == CopyCannedFsConfig \/ CopyNext \/ CopyReturn

SpecCopy == InitCopy /\ [][NextCopy]_vars

\* C27: the files under the input directory and the caller's ownership
\* table are, at every step and on failure too, as they were when the build
\* started.
C27_InputsUntouched ==
  /\ fnOut.input_dir = InputFiles(fnIn.walk)
  /\ fnOut.canned_fs_config_file = fnIn.canned_fs_config

(***************************************************************************)
(* ValidateArgs alone, with the scalar options that have a fallback in the *)
(* build-info record.  An option is "flag" when given on the command line, *)
(* "record" when taken from the record, "temp" when it names a temporary   *)
(* file holding the record's bytes.                                        *)
(***************************************************************************)

\* The scalar options with a fallback.
ScalarOptions ==
  {"target_sdk_version", "min_sdk_version", "override_apk_package_name", "logging_parent"}

\* The arguments: a signed or unsigned build of either payload type, each
\* option with a fallback given or omitted.
ArgsWithScalars ==
  { a \in [force : {TRUE},
           payload_type : {"image", "zip"},
           payload_fs_type : {"ext4"},
           key : {NONE, "given"},
           file_contexts : {NONE, "flag"},
           canned_fs_config : {NONE, "flag"},
           android_manifest : {NONE, "flag"},
           build_info : {NONE, "given"},
           unsigned_payload : {FALSE},
           unsigned_payload_only : {FALSE},
           payload_only : {FALSE},
           include_build_info : {FALSE},
           target_sdk_version : {NONE, "flag"},
           min_sdk_version : {NONE, "flag"},
           override_apk_package_name : {NONE, "flag"},
           logging_parent : {NONE, "flag"},
           no_hashtree : BOOLEAN] :
      a.min_sdk_version = a.target_sdk_version }

\* The scalar fields of the build-info record: each set or left empty.
BuildInfoRecords ==
  { r \in [target_sdk_version : {NONE, "record"},
           min_sdk_version : {NONE, "record"},
           override_apk_package_name : {NONE, "record"},
           logging_parent : {NONE, "record"},
           no_hashtree : BOOLEAN] :
      /\ r.min_sdk_version = r.target_sdk_version
      /\ r.logging_parent = r.override_apk_package_name }

\* `if not args.X: if build_info is not None: if build_info.X: args.X =
\* build_info.X` for one scalar option.
ScalarFallback(value, has_build_info, recorded) ==
  IF value = NONE /\ has_build_info /\ recorded # NONE THEN recorded ELSE value

\* The five fallbacks at the end of ValidateArgs.
ResolveScalars(a, record) ==
  LET has == a.build_info # NONE IN
  [a EXCEPT
     !.target_sdk_version = ScalarFallback(@, has, record.target_sdk_version),
     !.no_hashtree = IF ~@ /\ has /\ record.no_hashtree THEN TRUE ELSE @,
     !.min_sdk_version = ScalarFallback(@, has, record.min_sdk_version),
     !.override_apk_package_name = ScalarFallback(@, has, record.override_apk_package_name),
     !.logging_parent = ScalarFallback(@, has, record.logging_parent)]

\* ValidateArgs is called with the parsed arguments; the record is what the
\* build-info file holds when one is named.
InitArgs ==
  /\ BuildIdle
  /\ fnPc = "ValidateArgs"
  /\ fnIn \in [args : ArgsWithScalars, record : BuildInfoRecords]
  /\ fnOut = [args |-> fnIn.args, failure |-> NONE]

\* ValidateArgs runs with every file it tests in place.
ArgsValidate ==
  /\ fnPc = "ValidateArgs"
  /\ LET env == [build_info_exists |-> TRUE, manifest_isfile |-> TRUE,
                 android_manifest_isfile |-> TRUE, input_dir_isdir |-> TRUE]
         r == ValidateArgsOutcome(fnIn.args, env, "absent")
     IN IF r.ok
        THEN /\ fnOut' = [args |-> ResolveScalars(r.args, fnIn.record), failure |-> NONE]
             /\ fnPc' = "returned_true"
        ELSE /\ fnOut' = [args |-> r.args, failure |-> r.failure]
             /\ fnPc' = "returned_false"
  /\ UNCHANGED <<fnIn, buildVars>>

\* CreateApex goes on and reads the options.
ArgsRead ==
  /\ fnPc = "returned_true"
  /\ fnPc' = "ValidateApexManifest"
  /\ UNCHANGED <<fnIn, fnOut, buildVars>>

NextArgs == ArgsValidate \/ ArgsRead

SpecArgs == InitArgs /\ [][NextArgs]_vars

\* The value of option o that the claim expects after ValidateArgs: the
\* flag's when given, the record's when omitted and a record was supplied.
Expected(o) ==
  IF fnIn.args[o] # NONE THEN fnIn.args[o]
  ELSE IF fnIn.args.build_info = NONE THEN NONE
  ELSE IF o \in ScalarOptions THEN fnIn.record[o]
  ELSE "temp"

\* C22: once ValidateArgs has returned True, every option with a fallback
\* holds the explicit value when the flag was given and the record's value
\* when the flag was omitted and a record supplied, for both payload types,
\* and it keeps that value afterwards.
C22_FallbacksResolved ==
  fnPc \in {"returned_true", "ValidateApexManifest"} =>
    /\ \A o \in ScalarOptions \cup {"android_manifest", "file_contexts", "canned_fs_config"} :
         fnOut.args[o] = Expected(o)
    /\ fnOut.args.no_hashtree =
         (fnIn.args.no_hashtree \/ (fnIn.args.build_info # NONE /\ fnIn.record.no_hashtree))

====
